---- MODULE Spec2Model ----
(***************************************************************************)
(* Model of the what_i_want crate (src/src/lib.rs): the WhatIwant          *)
(* classifier trait with its two built-in implementations, the             *)
(* unwrap_or_* macro family and the require! guard.                        *)
(*                                                                         *)
(* A macro is modelled by what its expansion executes at the call site.    *)
(* An argument expression ($exp, $condition) may have side effects, so it  *)
(* is modelled as the sequence of values its successive evaluations yield  *)
(* (a variable yields the same value every time: a sequence of length 1;   *)
(* `iter.next()` yields a new value each time).  An expansion is an        *)
(* operator giving the record of everything it did: how often the          *)
(* expression was evaluated, which values were classified, which were      *)
(* handed to unwrap, how often the fallback ran, and how control leaves    *)
(* the construct.                                                          *)
(***************************************************************************)
EXTENDS Integers, Sequences, FiniteSets, TLC

\* Payloads of Ok/Some/Err range over 0..MaxPayload.
MaxPayload == 1
\* An effectful expression yields at most MaxEffects different values.
MaxEffects == 2
\* A caller asks the classifier about one value at most MaxCalls times.
MaxCalls == 3
\* The loop of unwrap_or_continue! runs over at most MaxLen items.
MaxLen == 3
\* get_mutipart_data receives at most MaxFields fields.
MaxFields == 2
\* The number of unwrap_or_continue! steps in get_mutipart_data's loop body.
ChainLen == 4

Payloads == 0..MaxPayload

(***************************************************************************)
(* Values of Result<T, E> and Option<T>.                                   *)
(***************************************************************************)
Ok(p) == [tag |-> "Ok", val |-> p]
Err(e) == [tag |-> "Err", val |-> e]
Some(p) == [tag |-> "Some", val |-> p]
None == [tag |-> "None"]

ResultValues == {Ok(p) : p \in Payloads} \cup {Err(e) : e \in Payloads}
OptionValues == {Some(p) : p \in Payloads} \cup {None}
Values == ResultValues \cup OptionValues

(***************************************************************************)
(* Values a function returns early: `return` (unit), `return false`,       *)
(* `return true`, `return <payload>`.                                      *)
(***************************************************************************)
Unit == [ty |-> "unit"]
BoolVal(b) == [ty |-> "bool", b |-> b]
IntVal(n) == [ty |-> "int", n |-> n]
RetVals == {BoolVal(b) : b \in BOOLEAN} \cup {IntVal(n) : n \in Payloads}

(***************************************************************************)
(* Expressions: the values successive evaluations yield.  After the last   *)
(* listed value the expression keeps yielding it.                          *)
(***************************************************************************)
RECURSIVE SeqsOfLen(_, _)
SeqsOfLen(S, n) ==
    IF n = 0 THEN {<<>>} ELSE {Append(s, x) : s \in SeqsOfLen(S, n - 1), x \in S}

SeqsUpTo(S, n) == UNION {SeqsOfLen(S, k) : k \in 1..n}
Exprs == SeqsUpTo(ResultValues, MaxEffects) \cup SeqsUpTo(OptionValues, MaxEffects)
Conds == SeqsUpTo(BOOLEAN, MaxEffects)
Eval(exp, n) == exp[IF n <= Len(exp) THEN n ELSE Len(exp)]

(***************************************************************************)
(* The classifier.                                                         *)
(***************************************************************************)
\* Mutant: the Result implementation asks is_err() instead of is_ok().
is_i_want_Result_is_err(v) == v.tag = "Err"

is_i_want_Result(v) == v.tag = "Ok"

is_i_want_Option(v) == v.tag = "Some"

is_i_want(v) ==
    IF v \in ResultValues THEN is_i_want_Result(v) ELSE is_i_want_Option(v)

\* Result::unwrap / Option::unwrap: the payload, or a panic on Err / None.
unwrap(v) ==
    IF v.tag \in {"Ok", "Some"}
      THEN [kind |-> "value", val |-> v.val]
      ELSE [kind |-> "panic"]

(***************************************************************************)
(* Fallback actions ($do) and what running one does to control flow.       *)
(***************************************************************************)
DoExpr(x) == [kind |-> "expr", val |-> x]
DoContinue == [kind |-> "continue"]
DoReturn(r) == [kind |-> "return", ret |-> r]

RunDo(do) ==
    CASE do.kind = "expr" -> [kind |-> "value", val |-> do.val]
      [] do.kind = "continue" -> [kind |-> "continue"]
      [] do.kind = "return" -> [kind |-> "return", ret |-> do.ret]

(***************************************************************************)
(* unwrap_or_do!($exp, $do): `if $exp.is_i_want() { $do } else             *)
(* { $exp.unwrap() }`.  $exp is written twice in the expansion, so the     *)
(* else branch evaluates it a second time.                                 *)
(***************************************************************************)
unwrap_or_do(exp, do) ==
    LET t1 == Eval(exp, 1) IN
    IF is_i_want(t1)
      THEN [evals |-> 1, classified |-> <<t1>>, unwrapped |-> <<>>,
            doRuns |-> 1, flow |-> RunDo(do)]
      ELSE LET t2 == Eval(exp, 2) IN
           [evals |-> 2, classified |-> <<t1>>, unwrapped |-> <<t2>>,
            doRuns |-> 0, flow |-> unwrap(t2)]

unwrap_or_continue(exp) == unwrap_or_do(exp, DoContinue)

unwrap_or_return(exp) == unwrap_or_do(exp, DoReturn(Unit))

unwrap_or_false(exp) == unwrap_or_do(exp, DoReturn(BoolVal(FALSE)))

unwrap_or_true(exp) == unwrap_or_do(exp, DoReturn(BoolVal(FALSE)))

unwrap_or_val(exp, val) == unwrap_or_do(exp, DoReturn(val))

(***************************************************************************)
(* require!($condition) and require!($condition, $return):                 *)
(* `if !$condition { return; }` and `if !$condition { return $return; }`.  *)
(* retEvals counts the evaluations of $return.                             *)
(***************************************************************************)
\* Mutant: the guard without its negation, `if $condition { return; }`.
require_not_negated(condition) ==
    LET c == Eval(condition, 1) IN
    IF c
      THEN [evals |-> 1, retEvals |-> 0, flow |-> [kind |-> "return", ret |-> Unit]]
      ELSE [evals |-> 1, retEvals |-> 0, flow |-> [kind |-> "fallthrough"]]

require(condition) ==
    LET c == Eval(condition, 1) IN
    IF ~c
      THEN [evals |-> 1, retEvals |-> 0, flow |-> [kind |-> "return", ret |-> Unit]]
      ELSE [evals |-> 1, retEvals |-> 0, flow |-> [kind |-> "fallthrough"]]

\* Mutant: $return evaluated before the test,
\* `let r = $return; if !$condition { return r; }`.
require_return_eager(condition, return) ==
    LET c == Eval(condition, 1) IN
    IF ~c
      THEN [evals |-> 1, retEvals |-> 1, flow |-> [kind |-> "return", ret |-> return]]
      ELSE [evals |-> 1, retEvals |-> 1, flow |-> [kind |-> "fallthrough"]]

require_return(condition, return) ==
    LET c == Eval(condition, 1) IN
    IF ~c
      THEN [evals |-> 1, retEvals |-> 1, flow |-> [kind |-> "return", ret |-> return]]
      ELSE [evals |-> 1, retEvals |-> 0, flow |-> [kind |-> "fallthrough"]]

(***************************************************************************)
(* State.  Each variable is one caller of the library:                     *)
(*   fn     a function whose body is `let unwrapped = <macro>!(..); rest`  *)
(*          (a_func of the docs);                                          *)
(*   guard  a function whose body is `require!(..); rest` (login, login2); *)
(*   loop   `for item in items { let x = unwrap_or_continue!(item);        *)
(*          rest(x) }`;                                                    *)
(*   chain  the two versions of get_mutipart_data of the crate docs, run   *)
(*          over the same fields;                                          *)
(*   cls    a caller holding one value and asking is_i_want about it.      *)
(* A caller that is not running is Idle.                                   *)
(***************************************************************************)
VARIABLES fn, guard, loop, chain, cls

vars == <<fn, guard, loop, chain, cls>>

Idle == [pc |-> "idle"]

Init ==
    /\ fn = Idle
    /\ guard = Idle
    /\ loop = Idle
    /\ chain = Idle
    /\ cls = Idle

(***************************************************************************)
(* How the enclosing function ends once the construct has produced `flow`: *)
(* a value or a passed guard lets the rest of the body run, `return`       *)
(* leaves the function with the returned value, a panic unwinds it.        *)
(***************************************************************************)
RestRuns(flow) == flow.kind \in {"value", "fallthrough"}

Exit(flow) ==
    CASE flow.kind = "return" -> [kind |-> "returned", ret |-> flow.ret]
      [] flow.kind = "panic" -> [kind |-> "panicked"]
      [] OTHER -> [kind |-> "completed"]

Called(macro, exp, arg, res) ==
    [pc |-> "called", macro |-> macro, exp |-> exp, arg |-> arg, res |-> res,
     restRan |-> RestRuns(res.flow), exit |-> Exit(res.flow)]

NoArg == [kind |-> "none"]

\* No caller has started yet.
Fresh == fn = Idle /\ guard = Idle /\ loop = Idle /\ chain = Idle /\ cls = Idle

\* unwrap_or_do! with a value as fallback (`unwrap_or_do!(an_err, Some(0))`)
\* or an early return (`unwrap_or_do!(an_option, return false)`).
CallUnwrapOrDo ==
    /\ Fresh
    /\ \E exp \in Exprs :
         \E do \in {DoExpr(x) : x \in Payloads} \cup {DoReturn(r) : r \in RetVals} :
           fn' = Called("unwrap_or_do", exp, do, unwrap_or_do(exp, do))
    /\ UNCHANGED <<guard, loop, chain, cls>>

CallUnwrapOrReturn ==
    /\ Fresh
    /\ \E exp \in Exprs :
         fn' = Called("unwrap_or_return", exp, NoArg, unwrap_or_return(exp))
    /\ UNCHANGED <<guard, loop, chain, cls>>

CallUnwrapOrFalse ==
    /\ Fresh
    /\ \E exp \in Exprs :
         fn' = Called("unwrap_or_false", exp, NoArg, unwrap_or_false(exp))
    /\ UNCHANGED <<guard, loop, chain, cls>>

CallUnwrapOrTrue ==
    /\ Fresh
    /\ \E exp \in Exprs :
         fn' = Called("unwrap_or_true", exp, NoArg, unwrap_or_true(exp))
    /\ UNCHANGED <<guard, loop, chain, cls>>

CallUnwrapOrVal ==
    /\ Fresh
    /\ \E exp \in Exprs : \E val \in RetVals :
         fn' = Called("unwrap_or_val", exp, val, unwrap_or_val(exp, val))
    /\ UNCHANGED <<guard, loop, chain, cls>>

\* login2 of the docs: `require!(username == "admin"); ...`.
CallRequire ==
    /\ Fresh
    /\ \E condition \in Conds :
         LET res == require(condition) IN
         guard' = [pc |-> "called", macro |-> "require", condition |-> condition,
                   res |-> res, restRan |-> RestRuns(res.flow),
                   exit |-> Exit(res.flow)]
    /\ UNCHANGED <<fn, loop, chain, cls>>

\* login of the docs: `require!(username == "admin", false); ...`.
CallRequireReturn ==
    /\ Fresh
    /\ \E condition \in Conds : \E return \in RetVals :
         LET res == require_return(condition, return) IN
         guard' = [pc |-> "called", macro |-> "require_return",
                   condition |-> condition, return |-> return, res |-> res,
                   restRan |-> RestRuns(res.flow), exit |-> Exit(res.flow)]
    /\ UNCHANGED <<fn, loop, chain, cls>>

(***************************************************************************)
(* The loop `for item in items { let x = unwrap_or_continue!(item);        *)
(* rest(x) }`.  `item` is a variable: every evaluation yields the item.    *)
(* bodyLog records the payloads rest(x) ran with.                          *)
(***************************************************************************)
ItemSeqs ==
    {<<>>} \cup SeqsUpTo(ResultValues, MaxLen) \cup SeqsUpTo(OptionValues, MaxLen)

StartLoop ==
    /\ Fresh
    /\ \E items \in ItemSeqs :
         loop' = [pc |-> "running", items |-> items, idx |-> 1, bodyLog |-> <<>>]
    /\ UNCHANGED <<fn, guard, chain, cls>>

LoopStep ==
    /\ loop.pc = "running"
    /\ loop.idx <= Len(loop.items)
    /\ LET r == unwrap_or_continue(<<loop.items[loop.idx]>>) IN
       loop' = CASE r.flow.kind = "continue" ->
                      [loop EXCEPT !.idx = @ + 1]
                 [] r.flow.kind = "value" ->
                      [loop EXCEPT !.idx = @ + 1,
                                   !.bodyLog = Append(@, r.flow.val)]
                 [] r.flow.kind = "panic" ->
                      [loop EXCEPT !.pc = "panicked"]
    /\ UNCHANGED <<fn, guard, chain, cls>>

LoopExit ==
    /\ loop.pc = "running"
    /\ loop.idx > Len(loop.items)
    /\ loop' = [loop EXCEPT !.pc = "done"]
    /\ UNCHANGED <<fn, guard, chain, cls>>

(***************************************************************************)
(* get_mutipart_data of the crate docs, before and after.  A field is the  *)
(* outcome of each of the ChainLen steps on it: headers().get(..) is an    *)
(* Option, to_str() a Result, parse(..) and dis.name Options.  A wanted    *)
(* step k carries payload k.  One iteration of either version gives the    *)
(* number of evaluations of each step reached, whether the innermost body  *)
(* ran, the payloads bound so far, and whether the iteration panicked.     *)
(***************************************************************************)
StepValues(k) == IF k = 2 THEN {Ok(k), Err(0)} ELSE {Some(k), None}

Fields == {f \in SeqsOfLen(UNION {StepValues(k) : k \in 1..ChainLen}, ChainLen) :
             \A k \in 1..ChainLen : f[k] \in StepValues(k)}

FieldSeqs == {<<>>} \cup SeqsUpTo(Fields, MaxFields)

\* `if let Some(x) = v` / `if let Ok(x) = v` matches.
IfLet(v) == v.tag \in {"Some", "Ok"}

RECURSIVE NestedFrom(_, _, _, _)
NestedFrom(field, k, evals, payloads) ==
    IF k > ChainLen
      THEN [evals |-> evals, ran |-> TRUE, payloads |-> payloads, panicked |-> FALSE]
      ELSE IF IfLet(field[k])
             THEN NestedFrom(field, k + 1, Append(evals, 1),
                             Append(payloads, field[k].val))
             ELSE [evals |-> Append(evals, 1), ran |-> FALSE,
                   payloads |-> payloads, panicked |-> FALSE]

RECURSIVE FlatFrom(_, _, _, _)
FlatFrom(field, k, evals, payloads) ==
    IF k > ChainLen
      THEN [evals |-> evals, ran |-> TRUE, payloads |-> payloads, panicked |-> FALSE]
      ELSE LET r == unwrap_or_continue(<<field[k]>>) IN
           CASE r.flow.kind = "value" ->
                  FlatFrom(field, k + 1, Append(evals, r.evals),
                           Append(payloads, r.flow.val))
             [] r.flow.kind = "continue" ->
                  [evals |-> Append(evals, r.evals), ran |-> FALSE,
                   payloads |-> payloads, panicked |-> FALSE]
             [] r.flow.kind = "panic" ->
                  [evals |-> Append(evals, r.evals), ran |-> FALSE,
                   payloads |-> payloads, panicked |-> TRUE]

StartChain ==
    /\ Fresh
    /\ \E fields \in FieldSeqs :
         chain' = [pc |-> "running", fields |-> fields,
                   flat |-> [pc |-> "running", idx |-> 1, log |-> <<>>],
                   nested |-> [pc |-> "running", idx |-> 1, log |-> <<>>]]
    /\ UNCHANGED <<fn, guard, loop, cls>>

FlatStep ==
    /\ chain.pc = "running"
    /\ chain.flat.pc = "running"
    /\ chain.flat.idx <= Len(chain.fields)
    /\ LET it == FlatFrom(chain.fields[chain.flat.idx], 1, <<>>, <<>>) IN
       chain' = [chain EXCEPT
                   !.flat = [pc |-> IF it.panicked THEN "panicked" ELSE "running",
                             idx |-> IF it.panicked THEN @.idx ELSE @.idx + 1,
                             log |-> Append(@.log, it)]]
    /\ UNCHANGED <<fn, guard, loop, cls>>

FlatExit ==
    /\ chain.pc = "running"
    /\ chain.flat.pc = "running"
    /\ chain.flat.idx > Len(chain.fields)
    /\ chain' = [chain EXCEPT !.flat.pc = "done"]
    /\ UNCHANGED <<fn, guard, loop, cls>>

NestedStep ==
    /\ chain.pc = "running"
    /\ chain.nested.pc = "running"
    /\ chain.nested.idx <= Len(chain.fields)
    /\ LET it == NestedFrom(chain.fields[chain.nested.idx], 1, <<>>, <<>>) IN
       chain' = [chain EXCEPT
                   !.nested = [pc |-> "running", idx |-> @.idx + 1,
                               log |-> Append(@.log, it)]]
    /\ UNCHANGED <<fn, guard, loop, cls>>

NestedExit ==
    /\ chain.pc = "running"
    /\ chain.nested.pc = "running"
    /\ chain.nested.idx > Len(chain.fields)
    /\ chain' = [chain EXCEPT !.nested.pc = "done"]
    /\ UNCHANGED <<fn, guard, loop, cls>>

(***************************************************************************)
(* A caller that holds a value and asks is_i_want(&value) about it up to   *)
(* MaxCalls times.  is_i_want takes &self: the value stays as given.       *)
(***************************************************************************)
Hold ==
    /\ Fresh
    /\ \E v \in Values :
         cls' = [pc |-> "holding", given |-> v, value |-> v, verdicts |-> <<>>]
    /\ UNCHANGED <<fn, guard, loop, chain>>

Classify ==
    /\ cls.pc = "holding"
    /\ Len(cls.verdicts) < MaxCalls
    /\ cls' = [cls EXCEPT !.verdicts = Append(@, is_i_want(cls.value))]
    /\ UNCHANGED <<fn, guard, loop, chain>>

Next ==
    \/ CallRequire
    \/ CallRequireReturn
    \/ CallUnwrapOrDo
    \/ CallUnwrapOrReturn
    \/ CallUnwrapOrFalse
    \/ CallUnwrapOrTrue
    \/ CallUnwrapOrVal
    \/ StartLoop
    \/ LoopStep
    \/ LoopExit
    \/ StartChain
    \/ FlatStep
    \/ FlatExit
    \/ NestedStep
    \/ NestedExit
    \/ Hold
    \/ Classify

Spec == Init /\ [][Next]_vars

(***************************************************************************)
(* Properties.                                                             *)
(***************************************************************************)
Wanted(v) == v.tag \in {"Ok", "Some"}

UnwrapMacros ==
    {"unwrap_or_do", "unwrap_or_return", "unwrap_or_false", "unwrap_or_true",
     "unwrap_or_val"}

\* The function called one of the unwrap_or_* macros.
UnwrapCalled == fn.pc = "called" /\ fn.macro \in UnwrapMacros

\* ... on an expression without side effects, i.e. on a value.
UnwrapCalledOnValue == UnwrapCalled /\ Len(fn.exp) = 1

Yields(v) == [kind |-> "value", val |-> v.val]

Returned(r) == [kind |-> "returned", ret |-> r]

\* C1: unwrap_or_do! on a wanted value yields the value's payload and does
\* not run the fallback action.
C1_WantedYieldsPayload ==
    (UnwrapCalledOnValue /\ fn.macro = "unwrap_or_do" /\ Wanted(fn.exp[1]))
      => /\ fn.res.flow = Yields(fn.exp[1])
         /\ fn.res.doRuns = 0
         /\ fn.restRan

\* C2: unwrap_or_do! on a not-wanted value runs the fallback action, never
\* hands the value to unwrap and does not panic; whatever the value, unwrap is
\* only invoked on a value that is wanted.
C2_NotWantedRunsFallback ==
    /\ (UnwrapCalledOnValue /\ fn.macro = "unwrap_or_do" /\ ~Wanted(fn.exp[1]))
         => /\ fn.res.doRuns = 1
            /\ fn.res.unwrapped = <<>>
            /\ fn.res.flow = RunDo(fn.arg)
    /\ UnwrapCalled
         => /\ fn.exit.kind # "panicked"
            /\ \A i \in 1..Len(fn.res.unwrapped) : Wanted(fn.res.unwrapped[i])

\* C3: every invocation of an unwrap_or_* macro evaluates its expression
\* exactly once, and the value handed to unwrap is the value classified.
C3_SingleEvaluation ==
    UnwrapCalled
      => /\ fn.res.evals = 1
         /\ \A i \in 1..Len(fn.res.unwrapped) :
              fn.res.unwrapped[i] = fn.res.classified[1]

\* The first evaluation of the guard's condition.
Cond == Eval(guard.condition, 1)

\* C4: require! lets the function go on when the condition is true; when it is
\* false the one-argument form returns with no value, the two-argument form
\* returns the supplied value, and the rest of the function does not run.
C4_Guard ==
    /\ (guard.pc = "called" /\ Cond)
         => guard.restRan /\ guard.exit.kind = "completed"
    /\ (guard.pc = "called" /\ guard.macro = "require" /\ ~Cond)
         => ~guard.restRan /\ guard.exit = Returned(Unit)
    /\ (guard.pc = "called" /\ guard.macro = "require_return" /\ ~Cond)
         => ~guard.restRan /\ guard.exit = Returned(guard.return)

\* Scenario 4: require!(2 == 3, false) made the function return false.
C4_Witness ==
    /\ guard.pc = "called"
    /\ guard.macro = "require_return"
    /\ guard.condition = <<FALSE>>
    /\ guard.return = BoolVal(FALSE)
    /\ guard.exit = Returned(BoolVal(FALSE))
    /\ ~guard.restRan

RECURSIVE WantedPayloads(_)
WantedPayloads(items) ==
    IF items = <<>>
      THEN <<>>
      ELSE (IF Wanted(Head(items)) THEN <<Head(items).val>> ELSE <<>>)
             \o WantedPayloads(Tail(items))

\* C5: in the unwrap_or_continue! loop the rest of the body has run exactly
\* once for each wanted item visited so far, in order, and for no other item;
\* the loop does not panic and ends having visited every item.
C5_ContinueLoop ==
    loop.pc # "idle"
      => /\ loop.pc # "panicked"
         /\ loop.bodyLog = WantedPayloads(SubSeq(loop.items, 1, loop.idx - 1))
         /\ loop.pc = "done" => loop.idx = Len(loop.items) + 1

\* C6: unwrap_or_true! on a not-wanted value makes the function return true;
\* on a wanted value it yields the payload and does not return.
C6_ReturnTrue ==
    /\ (UnwrapCalledOnValue /\ fn.macro = "unwrap_or_true" /\ ~Wanted(fn.exp[1]))
         => fn.exit = Returned(BoolVal(TRUE))
    /\ (UnwrapCalledOnValue /\ fn.macro = "unwrap_or_true" /\ Wanted(fn.exp[1]))
         => fn.res.flow = Yields(fn.exp[1]) /\ fn.exit.kind = "completed"

\* What each return-family macro returns on a not-wanted value.
FallbackReturn ==
    CASE fn.macro = "unwrap_or_return" -> Unit
      [] fn.macro = "unwrap_or_false" -> BoolVal(FALSE)
      [] fn.macro = "unwrap_or_val" -> fn.arg

ReturnFamilyCalledOnValue ==
    /\ UnwrapCalledOnValue
    /\ fn.macro \in {"unwrap_or_return", "unwrap_or_false", "unwrap_or_val"}

\* C7: unwrap_or_return!, unwrap_or_false! and unwrap_or_val! on a not-wanted
\* value leave the function at once, returning nothing, false and the supplied
\* value; on a wanted value they yield the payload and the function goes on.
C7_ReturnFamily ==
    /\ (ReturnFamilyCalledOnValue /\ ~Wanted(fn.exp[1]))
         => fn.exit = Returned(FallbackReturn) /\ ~fn.restRan
    /\ (ReturnFamilyCalledOnValue /\ Wanted(fn.exp[1]))
         => fn.res.flow = Yields(fn.exp[1]) /\ fn.restRan

\* C8: every answer of is_i_want is true exactly for Ok and Some, whatever the
\* payload, repeated answers agree, and the value is left as it was given.
C8_Classifier ==
    cls.pc = "holding"
      => /\ \A i \in 1..Len(cls.verdicts) :
              /\ cls.verdicts[i] <=> cls.given.tag \in {"Ok", "Some"}
              /\ ~cls.verdicts[i] <=> cls.given.tag \in {"Err", "None"}
              /\ cls.verdicts[i] = cls.verdicts[1]
         /\ cls.value = cls.given

\* An Err with a non-zero payload has been classified more than once.
C8_Witness ==
    /\ cls.pc = "holding"
    /\ cls.given = Err(1)
    /\ Len(cls.verdicts) >= 2
    /\ ~cls.verdicts[1]

Min(a, b) == IF a <= b THEN a ELSE b

\* C9: the flat unwrap_or_continue! chain does on every field what the nested
\* `if let` chain does: the same steps evaluated, once each, the innermost body
\* run for the same fields with the same payloads, no panic, and the loop ends
\* after the same fields.
C9_FlatEqualsNested ==
    chain.pc = "running"
      => /\ chain.flat.pc # "panicked"
         /\ \A i \in 1..Min(Len(chain.flat.log), Len(chain.nested.log)) :
              chain.flat.log[i] = chain.nested.log[i]
         /\ (chain.flat.pc = "done" /\ chain.nested.pc = "done")
              => chain.flat.log = chain.nested.log

\* C10: require! evaluates its condition exactly once; the two-argument form
\* evaluates its return value once when the condition is false and not at all
\* when it is true; a true condition leaves the function's control flow alone.
C10_GuardEvaluations ==
    guard.pc = "called"
      => /\ guard.res.evals = 1
         /\ guard.res.retEvals =
              (IF guard.macro = "require_return" /\ ~Cond THEN 1 ELSE 0)
         /\ Cond => guard.res.flow = [kind |-> "fallthrough"]

\* The two-argument guard passed on a condition with side effects that would
\* be false on a second evaluation.
C10_Witness ==
    /\ guard.pc = "called"
    /\ guard.macro = "require_return"
    /\ guard.condition = <<TRUE, FALSE>>
    /\ guard.res.evals = 1
    /\ guard.res.retEvals = 0
    /\ guard.restRan

====
